---- MODULE Spec2Model ----
(***************************************************************************)
(* Localization Manager (danish17/localization-manager-vscode).            *)
(*                                                                         *)
(* The translation cache and its rebuilds (autocomplete.ts,                *)
(* refreshTranslationCache), the extension's activation, commands and      *)
(* watcher (extension.ts, setupFileWatcher), and the completion and hover  *)
(* providers with the text functions they are made of.                     *)
(*                                                                         *)
(* Text is modelled character by character on TLA+ strings (Len, SubSeq    *)
(* and \o).  The backquote cannot be written in a TLA+ string literal, so  *)
(* the quote class ["'`] appears with its two other members; no text of    *)
(* the model holds a backquote.                                            *)
(***************************************************************************)
EXTENDS Naturals, Integers, Sequences, FiniteSets, TLC

(***************************************************************************)
(* Bounds of the model.                                                    *)
(***************************************************************************)
\* concurrent refreshTranslationCache calls that may be in progress
MaxRebuilds == 2
\* events of the environment in one behaviour: a write of a translation
\* file, a change of the setting, a step of the clock
MaxChanges == 1
\* Date.now() at the start, and the length of one clock step, in ms
InitialNow == 400000
TickMs == 400000

(***************************************************************************)
(* Strings.                                                                *)
(***************************************************************************)
\* s.charAt(i), i counted from 1
CharAt(s, i) == SubSeq(s, i, i)

\* s.startsWith(p)
StartsWith(s, p) == Len(p) <= Len(s) /\ SubSeq(s, 1, Len(p)) = p

\* s.substring(0, n), n clamped to the length as substring does
Substring0(s, n) == SubSeq(s, 1, IF n > Len(s) THEN Len(s) ELSE n)

\* s.indexOf(p), counted from 0; -1 when p does not occur
IndexOf(s, p) ==
  LET hits == {i \in 0..(Len(s) - Len(p)) : SubSeq(s, i + 1, i + Len(p)) = p}
  IN IF hits = {} THEN -1 ELSE CHOOSE i \in hits : \A j \in hits : i <= j

\* s.lastIndexOf(p), counted from 0; -1 when p does not occur
LastIndexOf(s, p) ==
  LET hits == {i \in 0..(Len(s) - Len(p)) : SubSeq(s, i + 1, i + Len(p)) = p}
  IN IF hits = {} THEN -1 ELSE CHOOSE i \in hits : \A j \in hits : i >= j

\* s.replace(p, r) with a string pattern: the first occurrence only
ReplaceFirst(s, p, r) ==
  LET i == IndexOf(s, p)
  IN IF i < 0 THEN s
     ELSE SubSeq(s, 1, i) \o r \o SubSeq(s, i + Len(p) + 1, Len(s))

UpperCaseLetters == "ABCDEFGHIJKLMNOPQRSTUVWXYZ"
LowerCaseLetters == "abcdefghijklmnopqrstuvwxyz"
Digits == "0123456789"

\* c.toLowerCase() of one character
LowerChar(c) ==
  LET i == IndexOf(UpperCaseLetters, c)
  IN IF i < 0 THEN c ELSE CharAt(LowerCaseLetters, i + 1)

RECURSIVE ToLowerCase(_)
ToLowerCase(s) ==
  IF s = "" THEN ""
  ELSE LowerChar(CharAt(s, 1)) \o ToLowerCase(SubSeq(s, 2, Len(s)))

\* `${index}` of an array index
RECURSIVE IndexToString(_)
IndexToString(n) ==
  IF n < 10 THEN CharAt(Digits, n + 1)
  ELSE IndexToString(n \div 10) \o CharAt(Digits, (n % 10) + 1)

(***************************************************************************)
(* Paths (node's path module, posix).                                      *)
(***************************************************************************)
\* path.basename(p)
Basename(p) == SubSeq(p, LastIndexOf(p, "/") + 2, Len(p))

\* path.dirname(p)
Dirname(p) ==
  LET i == LastIndexOf(p, "/")
  IN IF i < 0 THEN "." ELSE IF i = 0 THEN "/" ELSE SubSeq(p, 1, i)

\* path.extname(p): from the last dot of the basename, "" when there is none
\* or when the basename starts with it
Extname(p) ==
  LET b == Basename(p)
      i == LastIndexOf(b, ".")
  IN IF i <= 0 THEN "" ELSE SubSeq(b, i + 1, Len(b))

\* path.join(dir, name)
PathJoin(dir, name) == dir \o "/" \o name

\* path.extname(p).toLowerCase() === '.json'
IsJsonName(p) == ToLowerCase(Extname(p)) = ".json"

(***************************************************************************)
(* JSON values, as JSON.parse returns them.                                *)
(***************************************************************************)
JStr(s) == [t |-> "string", s |-> s, e |-> <<>>]
JNum(s) == [t |-> "number", s |-> s, e |-> <<>>]
JBool(s) == [t |-> "boolean", s |-> s, e |-> <<>>]
JNull == [t |-> "null", s |-> "", e |-> <<>>]
\* an object: its entries [k, v] in property order
JObj(entries) == [t |-> "object", s |-> "", e |-> entries]
\* an array: its items in order
JArr(items) == [t |-> "array", s |-> "", e |-> items]
\* what JSON.parse throws on a text that is no JSON
SyntaxError == [t |-> "SyntaxError", s |-> "", e |-> <<>>]

\* !current is false
Truthy(current) ==
  CASE current.t = "string" -> current.s # ""
    [] current.t = "number" -> current.s # "0"
    [] current.t = "boolean" -> current.s = "true"
    [] current.t = "null" -> FALSE
    [] OTHER -> TRUE

\* a Map<string, string>
EmptyMap == [k \in {} |-> ""]
MapSet(m, k, v) == [x \in (DOMAIN m) \cup {k} |-> IF x = k THEN v ELSE m[x]]
MapHas(m, k) == k \in DOMAIN m

\* the entries traverse records, in the order it records them
RECURSIVE traverse(_, _), traverseItems(_, _, _), traverseEntries(_, _, _)
\* every property name joined to the prefix with a dot, the empty prefix too
traverseEntries_AlwaysJoined(entries, i, currentPrefix) ==
  IF i > Len(entries) THEN <<>>
  ELSE traverse(entries[i].v, currentPrefix \o "." \o entries[i].k)
         \o traverseEntries(entries, i + 1, currentPrefix)

traverse(current, currentPrefix) ==
  IF ~Truthy(current) THEN <<>>
  ELSE IF current.t = "array" THEN traverseItems(current.e, 1, currentPrefix)
  ELSE IF current.t = "object" THEN traverseEntries(current.e, 1, currentPrefix)
  ELSE IF current.t = "string"
       THEN <<[key |-> currentPrefix, value |-> current.s]>>
  ELSE <<>>
traverseItems(items, i, currentPrefix) ==
  IF i > Len(items) THEN <<>>
  ELSE LET index == IndexToString(i - 1)
           newPrefix == IF currentPrefix # ""
                        THEN currentPrefix \o "[" \o index \o "]"
                        ELSE index
       IN traverse(items[i], newPrefix) \o traverseItems(items, i + 1, currentPrefix)
traverseEntries(entries, i, currentPrefix) ==
  IF i > Len(entries) THEN <<>>
  ELSE LET newPrefix == IF currentPrefix # ""
                        THEN currentPrefix \o "." \o entries[i].k
                        ELSE entries[i].k
       IN traverse(entries[i].v, newPrefix)
            \o traverseEntries(entries, i + 1, currentPrefix)

\* values.set(key, value) for each recorded entry, in order
RECURSIVE SetAll(_, _, _)
SetAll(m, recorded, i) ==
  IF i > Len(recorded) THEN m
  ELSE SetAll(MapSet(m, recorded[i].key, recorded[i].value), recorded, i + 1)

\* the traversal starting under a prefix that is not empty
extractTranslationData_Prefixed(obj) ==
  LET recorded == traverse(obj, ".")
  IN [keys |-> [i \in 1..Len(recorded) |-> recorded[i].key],
      values |-> SetAll(EmptyMap, recorded, 1)]

extractTranslationData(obj) ==
  LET recorded == traverse(obj, "")
  IN [keys |-> [i \in 1..Len(recorded) |-> recorded[i].key],
      values |-> SetAll(EmptyMap, recorded, 1)]

(***************************************************************************)
(* The file system the rebuilds read.  The directory tree is fixed; the    *)
(* texts of two translation files change.                                  *)
(***************************************************************************)
\* the texts a translation file may hold, and the absence of the file
TextOne == "{\"a\":{\"b\":\"x\"}}"
TextTwo == "{\"a\":{\"b\":\"y\",\"c\":[\"z\",7]}}"
TextSub == "{\"d\":\"v\"}"
TextBad == "{\"a\":"
NoFile == "ENOENT"
Contents == {TextOne, TextTwo, TextBad, NoFile}

\* JSON.parse(content), for the texts of the model
JsonParse(content) ==
  CASE content = TextOne ->
         JObj(<<[k |-> "a", v |-> JObj(<<[k |-> "b", v |-> JStr("x")]>>)]>>)
    [] content = TextTwo ->
         JObj(<<[k |-> "a",
                 v |-> JObj(<<[k |-> "b", v |-> JStr("y")],
                              [k |-> "c", v |-> JArr(<<JStr("z"), JNum("7")>>)]>>)]>>)
    [] content = TextSub -> JObj(<<[k |-> "d", v |-> JStr("v")]>>)
    [] OTHER -> SyntaxError

\* readdir of each directory
DirEntries ==
  [p \in {"/l", "/l/sub"} |->
     IF p = "/l" THEN <<"en.json", "fr.JSON", "notes.txt", "sub">>
     ELSE <<"de.json">>]
MutableFiles == {"/l/en.json", "/l/fr.JSON"}
\* their texts at the start
InitialFiles == [p \in MutableFiles |-> IF p = "/l/en.json" THEN TextOne ELSE TextTwo]
StaticFiles ==
  [p \in {"/l/notes.txt", "/l/sub/de.json"} |->
     IF p = "/l/sub/de.json" THEN TextSub ELSE TextBad]

\* an entry of the sourceFiles setting that is not a string (a number, say)
NonStringEntry == "#7"

\* the values of the l10n-manager.sourceFiles setting: [iterable, list];
\* a value that is no array (null, a number) is not iterable
NotIterable == [iterable |-> FALSE, list |-> <<>>]
SourceList(list) == [iterable |-> TRUE, list |-> list]
ConfigChoices ==
  { SourceList(<<>>),
    SourceList(<<"/l/en.json", "/l/fr.JSON">>),
    SourceList(<<"/l">>),
    SourceList(<<"/l/en.json", NonStringEntry>>),
    NotIterable }

(***************************************************************************)
(* The translation cache.                                                  *)
(***************************************************************************)
\* let translationCache = { keys: [], values: new Map(), lastUpdate: 0 }
TranslationCache(keys, values, lastUpdate) ==
  [keys |-> keys, values |-> values, lastUpdate |-> lastUpdate]
InitialCache == TranslationCache(<<>>, EmptyMap, 0)

\* the members of a sequence
Range(seq) == {seq[i] : i \in 1..Len(seq)}

\* [...new Set(keys)]: the first occurrence of each key, in order
RECURSIVE Unique(_)
Unique(keys) ==
  IF keys = <<>> THEN <<>>
  ELSE LET front == SubSeq(keys, 1, Len(keys) - 1)
           last == keys[Len(keys)]
       IN IF last \in Range(front) THEN Unique(front)
          ELSE Append(Unique(front), last)

VARIABLES
  sourceFiles,       \* the l10n-manager.sourceFiles setting
  files,             \* the text of each changing file
  translationCache,  \* the global cache
  rebuilds,          \* the refreshTranslationCache calls in progress: the
                     \* sourceFiles each read from the setting, the paths it
                     \* has still to process, its newCache, and the files it
                     \* has processed with the text each held
  fileWatcher,       \* "undefined", "watching" or "disposed"
  activated,         \* "no", "yes" or "failed"
  pendingEvents,     \* watcher events raised and not yet delivered
  changes,           \* events of the environment so far: file writes,
                     \* changes of the setting, steps of the clock
  now,               \* Date.now()
  shown,             \* the messages the latest step showed the user
  lastChange,        \* the latest file change: "none", "raised" (its event
                     \* is pending), "delivered" or "missed" (no event)
  lastCommand,       \* the command the latest step executed and how it ended
  completion,        \* the completion request in progress
  activeEditor,      \* vscode.window.activeTextEditor: whether there is one,
                     \* and the lines of its document
  request,           \* the request the host makes of a provider
  response           \* what the provider returned

\* the variables of a request
requestVars == <<activeEditor, request, response>>

\* the variables of the cache, its rebuilds and what triggers them
cacheVars ==
  <<sourceFiles, files, translationCache, rebuilds, fileWatcher, activated,
    pendingEvents, changes, now, shown, lastChange, lastCommand, completion>>

vars == <<cacheVars, requestVars>>

\* no editor has the focus
NoEditor == [open |-> FALSE, document |-> <<>>]
\* the document with these lines has the focus
Editor(lines) == [open |-> TRUE, document |-> lines]

NoRequest == [kind |-> "none"]
NoResponse == [kind |-> "none"]

RebuildIds == 1..MaxRebuilds

\* a slot holding no call
IdleRebuild ==
  [pc |-> "idle", sourceFiles |-> <<>>, work |-> <<>>, newCache |-> InitialCache,
   calls |-> <<>>]

\* no command was executed
NoCommand == [command |-> "", result |-> ""]

ErrorMessage == "error: Failed to refresh translation cache"
WarningMessage(filePath) == "warning: Error processing " \o Basename(filePath)

(***************************************************************************)
(* fs.promises, on the modelled tree.                                      *)
(***************************************************************************)
\* the text of the file at a path, NoFile when there is none
FileAt(fs, path) ==
  IF path \in MutableFiles THEN fs[path]
  ELSE IF path \in DOMAIN StaticFiles THEN StaticFiles[path]
  ELSE NoFile

\* fs.promises.stat(path): "directory", "file", or rejected
Stat(fs, path) ==
  IF path = NonStringEntry THEN "ERR_INVALID_ARG_TYPE"
  ELSE IF path \in DOMAIN DirEntries THEN "directory"
  ELSE IF FileAt(fs, path) # NoFile THEN "file"
  ELSE "ENOENT"

\* fs.promises.readdir(path): the names of what exists in the directory
ReadDir(fs, path) ==
  SelectSeq(DirEntries[path],
            LAMBDA name : Stat(fs, PathJoin(path, name)) # "ENOENT")

(***************************************************************************)
(* refreshTranslationCache.                                                *)
(***************************************************************************)
\* a merge that pushes the keys and sets no value
MergeExtracted_KeysOnly(newCache, extracted) ==
  [newCache EXCEPT !.keys = newCache.keys \o extracted.keys]

\* newCache.keys.push(...extracted.keys);
\* extracted.values.forEach((value, key) => newCache.values.set(key, value))
MergeExtracted(newCache, extracted) ==
  [newCache EXCEPT
     !.keys = newCache.keys \o extracted.keys,
     !.values = [k \in (DOMAIN newCache.values) \cup (DOMAIN extracted.values) |->
                   IF k \in DOMAIN extracted.values THEN extracted.values[k]
                   ELSE newCache.values[k]]]

\* the directory's entries processJsonFile goes on to, in order
JsonChildren(fs, dirPath) ==
  LET names == SelectSeq(ReadDir(fs, dirPath), IsJsonName)
  IN [i \in 1..Len(names) |-> PathJoin(dirPath, names[i])]

\* a call that builds its cache in the global one
CacheWhileProcessing_InPlace(cache, newCache) == newCache

\* the global cache while a call is still processing its files: the call
\* builds in its local newCache
CacheWhileProcessing(cache, newCache) == cache

\* a catch that installs what the failed call had built
CacheAfterCatch_Installs(cache, newCache) ==
  [newCache EXCEPT !.keys = Unique(newCache.keys)]

\* the global cache after the catch of a call that failed: the swap was not
\* reached
CacheAfterCatch(cache, newCache) == cache

\* a per-file catch that gives up the remaining paths
AfterWarning_GivesUp(rest) == <<>>

\* the paths left to a call after the catch of processJsonFile showed its
\* warning: the for loop goes on with the next source
AfterWarning(rest) == rest

\* newCache.keys = [...new Set(newCache.keys)]; translationCache = newCache
\* the new cache installed with its keys as they were pushed
SwappedCache_KeepsDuplicates(newCache) == newCache

SwappedCache(newCache) == [newCache EXCEPT !.keys = Unique(newCache.keys)]

\* the least slot holding no call
\* a new call takes the place of the first call
FreeSlot_First(rbs) == 1

FreeSlot(rbs) == CHOOSE r \in RebuildIds :
  rbs[r].pc = "idle" /\ \A q \in RebuildIds : rbs[q].pc = "idle" => r <= q

\* What a call of refreshTranslationCache does before its first await: with
\* a setting that cannot be iterated the for loop throws and the catch shows
\* the error; with no source the loop ends at once and the swap follows; else
\* the call awaits its first file.  ended: the call returned without awaiting.
refreshTranslationCache(rbs, cache, cfg, time) ==
  IF ~cfg.iterable
  THEN [rebuilds |-> rbs,
        cache |-> CacheAfterCatch(cache, TranslationCache(<<>>, EmptyMap, time)),
        shown |-> {ErrorMessage}, ended |-> TRUE, slot |-> 0]
  ELSE IF cfg.list = <<>>
  THEN [rebuilds |-> rbs,
        cache |-> SwappedCache(TranslationCache(<<>>, EmptyMap, time)),
        shown |-> {}, ended |-> TRUE, slot |-> 0]
  ELSE LET r == FreeSlot(rbs)
       IN [rebuilds |-> [rbs EXCEPT ![r] =
                           [pc |-> "run", sourceFiles |-> cfg.list,
                            work |-> cfg.list,
                            newCache |-> TranslationCache(<<>>, EmptyMap, time),
                            calls |-> <<>>]],
           cache |-> cache, shown |-> {}, ended |-> FALSE, slot |-> r]

\* a slot is free for one more call
CanRefresh == \E r \in RebuildIds : rebuilds[r].pc = "idle"

\* the completion request awaiting call r goes on when r ends
Resumed(cmp, r) ==
  IF cmp.pc = "awaiting" /\ cmp.rebuild = r
  THEN [pc |-> "resumable", rebuild |-> 0] ELSE cmp

\* One processJsonFile(filePath) of call r: stat, then readdir or readFile
\* and parse; the catch shows a warning.  path.basename of an entry that is
\* no string throws in the catch itself, which ends the call in its outer
\* catch.
processJsonFile(r) ==
  LET rb == rebuilds[r]
      filePath == Head(rb.work)
      rest == Tail(rb.work)
      kind == Stat(files, filePath)
      content == FileAt(files, filePath)
      json == JsonParse(content)
  IN /\ rb.pc = "run"
     /\ rb.work # <<>>
     /\ lastCommand' = NoCommand
     /\ IF kind = "ERR_INVALID_ARG_TYPE"
        THEN /\ rebuilds' = [rebuilds EXCEPT ![r] = IdleRebuild]
             /\ shown' = {ErrorMessage}
             /\ completion' = Resumed(completion, r)
             /\ translationCache' = CacheAfterCatch(translationCache, rb.newCache)
        ELSE /\ completion' = completion
             /\ IF kind = "ENOENT"
                THEN /\ rebuilds' = [rebuilds EXCEPT
                          ![r].work = AfterWarning(rest),
                          ![r].calls = Append(rb.calls,
                                         [path |-> filePath, content |-> content])]
                     /\ shown' = {WarningMessage(filePath)}
                     /\ translationCache' =
                          CacheWhileProcessing(translationCache, rb.newCache)
                ELSE IF kind = "directory"
                THEN /\ rebuilds' = [rebuilds EXCEPT
                          ![r].work = JsonChildren(files, filePath) \o rest]
                     /\ shown' = {}
                     /\ translationCache' =
                          CacheWhileProcessing(translationCache, rb.newCache)
                ELSE IF ~IsJsonName(filePath)
                THEN /\ rebuilds' = [rebuilds EXCEPT ![r].work = rest]
                     /\ shown' = {}
                     /\ translationCache' =
                          CacheWhileProcessing(translationCache, rb.newCache)
                ELSE IF json = SyntaxError
                THEN /\ rebuilds' = [rebuilds EXCEPT
                          ![r].work = AfterWarning(rest),
                          ![r].calls = Append(rb.calls,
                                         [path |-> filePath, content |-> content])]
                     /\ shown' = {WarningMessage(filePath)}
                     /\ translationCache' =
                          CacheWhileProcessing(translationCache, rb.newCache)
                ELSE LET merged ==
                           MergeExtracted(rb.newCache, extractTranslationData(json))
                     IN /\ rebuilds' = [rebuilds EXCEPT
                             ![r].work = rest,
                             ![r].newCache = merged,
                             ![r].calls = Append(rb.calls,
                                            [path |-> filePath, content |-> content])]
                        /\ shown' = {}
                        /\ translationCache' =
                             CacheWhileProcessing(translationCache, merged)
     /\ UNCHANGED requestVars
     /\ UNCHANGED <<sourceFiles, files, fileWatcher, activated, pendingEvents,
                    changes, now, lastChange>>

\* The end of call r, after its last file: the keys lose their duplicates
\* and the new cache replaces the global one, in one synchronous run.
finishRefresh(r) ==
  /\ rebuilds[r].pc = "run"
  /\ rebuilds[r].work = <<>>
  /\ translationCache' = SwappedCache(rebuilds[r].newCache)
  /\ rebuilds' = [rebuilds EXCEPT ![r] = IdleRebuild]
  /\ completion' = Resumed(completion, r)
  /\ shown' = {}
  /\ lastCommand' = NoCommand
  /\ UNCHANGED requestVars
  /\ UNCHANGED <<sourceFiles, files, fileWatcher, activated, pendingEvents,
                 changes, now, lastChange>>

(***************************************************************************)
(* The watcher, the activation and the commands.                           *)
(***************************************************************************)
\* sourceFiles.map(file => path.dirname(file)) returns: the setting is an
\* array of strings
CanWatch(cfg) == cfg.iterable /\ NonStringEntry \notin Range(cfg.list)

\* the directories of the watcher's pattern
WatchedDirs(cfg) == {Dirname(cfg.list[i]) : i \in 1..Len(cfg.list)}

\* fileWatcher after setupFileWatcher: the old watcher is disposed first, and
\* the map throws before a new one is made when the setting is no array of
\* strings
setupFileWatcher(watcher, cfg) ==
  IF CanWatch(cfg) THEN "watching"
  ELSE IF watcher = "undefined" THEN "undefined" ELSE "disposed"

\* the latest change once the watcher that saw it is disposed
AfterDispose(change) == IF change = "raised" THEN "missed" ELSE change

\* activate(): the initial refresh, the watcher, the providers.  When
\* setupFileWatcher throws, activate throws with it and no provider and no
\* configuration listener is registered.
activate ==
  /\ activated = "no"
  /\ CanRefresh
  /\ LET call == refreshTranslationCache(rebuilds, translationCache, sourceFiles, now)
     IN /\ rebuilds' = call.rebuilds
        /\ translationCache' = call.cache
        /\ shown' = call.shown
  /\ fileWatcher' = setupFileWatcher(fileWatcher, sourceFiles)
  /\ activated' = IF CanWatch(sourceFiles) THEN "yes" ELSE "failed"
  /\ lastCommand' = NoCommand
  /\ UNCHANGED requestVars
  /\ UNCHANGED <<sourceFiles, files, pendingEvents, changes, now, lastChange,
                 completion>>

\* The setting becomes cfg and onDidChangeConfiguration runs its handler:
\* refreshTranslationCache() and setupFileWatcher(context).  The events of
\* the disposed watcher are lost.
ConfigurationChanged(cfg, messages) ==
  /\ changes < MaxChanges
  /\ changes' = changes + 1
  /\ sourceFiles' = cfg
  /\ IF activated = "yes"
     THEN /\ CanRefresh
          /\ LET call == refreshTranslationCache(rebuilds, translationCache, cfg, now)
             IN /\ rebuilds' = call.rebuilds
                /\ translationCache' = call.cache
                /\ shown' = call.shown \cup messages
          /\ fileWatcher' = setupFileWatcher(fileWatcher, cfg)
          /\ pendingEvents' = 0
          /\ lastChange' = AfterDispose(lastChange)
     ELSE /\ shown' = messages
          /\ UNCHANGED <<rebuilds, translationCache, fileWatcher, pendingEvents,
                         lastChange>>

\* the user edits the setting
onDidChangeConfiguration(cfg) ==
  /\ activated = "yes"
  /\ cfg # sourceFiles
  /\ ConfigurationChanged(cfg, {})
  /\ lastCommand' = NoCommand
  /\ UNCHANGED requestVars
  /\ UNCHANGED <<files, activated, now, completion>>

\* a translation file is written, created or deleted; the watcher raises an
\* event when the file is in one of its directories
FileChange(path, content) ==
  /\ activated = "yes"
  /\ changes < MaxChanges
  /\ content # files[path]
  /\ files' = [files EXCEPT ![path] = content]
  /\ changes' = changes + 1
  /\ IF fileWatcher = "watching" /\ Dirname(path) \in WatchedDirs(sourceFiles)
     THEN pendingEvents' = pendingEvents + 1 /\ lastChange' = "raised"
     ELSE pendingEvents' = pendingEvents /\ lastChange' = "missed"
  /\ shown' = {}
  /\ lastCommand' = NoCommand
  /\ UNCHANGED requestVars
  /\ UNCHANGED <<sourceFiles, translationCache, rebuilds, fileWatcher, activated,
                 now, completion>>

\* fileWatcher.onDidChange / onDidCreate / onDidDelete:
\* () => refreshTranslationCache()
onWatcherEvent ==
  /\ pendingEvents > 0
  /\ CanRefresh
  /\ LET call == refreshTranslationCache(rebuilds, translationCache, sourceFiles, now)
     IN /\ rebuilds' = call.rebuilds
        /\ translationCache' = call.cache
        /\ shown' = call.shown
  /\ pendingEvents' = pendingEvents - 1
  /\ lastChange' = IF pendingEvents = 1 THEN "delivered" ELSE lastChange
  /\ lastCommand' = NoCommand
  /\ UNCHANGED requestVars
  /\ UNCHANGED <<sourceFiles, files, fileWatcher, activated, changes, now,
                 completion>>

\* time passes
Tick ==
  /\ changes < MaxChanges
  /\ changes' = changes + 1
  /\ now' = now + TickMs
  /\ shown' = {}
  /\ lastCommand' = NoCommand
  /\ UNCHANGED requestVars
  /\ UNCHANGED <<sourceFiles, files, translationCache, rebuilds, fileWatcher,
                 activated, pendingEvents, lastChange, completion>>

\* the commands package.json contributes, and those activate registers
SetSourceFilesCommand == "l10n-manager.setSourceFiles"
ShowSourceFilesCommand == "l10n-manager.showSourceFiles"
RefreshCacheCommand == "l10n-manager.refreshCache"
ContributedCommands == {SetSourceFilesCommand, RefreshCacheCommand}
RegisteredCommands == {SetSourceFilesCommand, ShowSourceFilesCommand}

\* getJsonFilesFromDirectory(dirPath): the .json files below it, at any depth
RECURSIVE getJsonFilesFromDirectory(_, _), JsonFilesOfItems(_, _, _, _)
getJsonFilesFromDirectory(fs, dirPath) ==
  JsonFilesOfItems(fs, dirPath, ReadDir(fs, dirPath), 1)
JsonFilesOfItems(fs, dirPath, items, i) ==
  IF i > Len(items) THEN <<>>
  ELSE LET fullPath == PathJoin(dirPath, items[i])
           found == IF Stat(fs, fullPath) = "directory"
                    THEN getJsonFilesFromDirectory(fs, fullPath)
                    ELSE IF IsJsonName(fullPath) THEN <<fullPath>> ELSE <<>>
       IN found \o JsonFilesOfItems(fs, dirPath, items, i + 1)

\* what the user may pick in the open dialog (<<>>: the dialog is dismissed)
DialogChoices == {<<>>, <<"/l">>}

\* allJsonFiles of the setSourceFiles handler for the picked uris
RECURSIVE PickedJsonFiles(_, _, _)
PickedJsonFiles(fs, uris, i) ==
  IF i > Len(uris) THEN <<>>
  ELSE LET found == IF Stat(fs, uris[i]) = "directory"
                    THEN getJsonFilesFromDirectory(fs, uris[i])
                    ELSE IF IsJsonName(uris[i]) THEN <<uris[i]>> ELSE <<>>
       IN found \o PickedJsonFiles(fs, uris, i + 1)

\* vscode.commands.executeCommand(command): a command nobody registered is
\* rejected ("command not found") and nothing runs
executeCommand(command, uris) ==
  /\ activated # "no"
  /\ IF command \notin RegisteredCommands
     THEN /\ lastCommand' = [command |-> command, result |-> "not found"]
          /\ shown' = {}
          /\ UNCHANGED <<sourceFiles, translationCache, rebuilds, fileWatcher,
                         pendingEvents, lastChange, changes>>
     ELSE /\ lastCommand' = [command |-> command, result |-> "done"]
          /\ IF command = SetSourceFilesCommand
             THEN LET uniqueJsonFiles == Unique(PickedJsonFiles(files, uris, 1))
                  IN IF uris = <<>>
                     THEN /\ shown' = {}
                          /\ UNCHANGED <<sourceFiles, translationCache, rebuilds,
                                         fileWatcher, pendingEvents, lastChange,
                                         changes>>
                     ELSE IF uniqueJsonFiles = <<>>
                     THEN /\ shown' = {"warning: No JSON files found"}
                          /\ UNCHANGED <<sourceFiles, translationCache, rebuilds,
                                         fileWatcher, pendingEvents, lastChange,
                                         changes>>
                     ELSE IF SourceList(uniqueJsonFiles) = sourceFiles
                     THEN /\ shown' = {"information: Added JSON files"}
                          /\ UNCHANGED <<sourceFiles, translationCache, rebuilds,
                                         fileWatcher, pendingEvents, lastChange,
                                         changes>>
                     ELSE ConfigurationChanged(SourceList(uniqueJsonFiles),
                                               {"information: Added JSON files"})
             ELSE /\ shown' = {"information: source files"}
                  /\ UNCHANGED <<sourceFiles, translationCache, rebuilds,
                                 fileWatcher, pendingEvents, lastChange, changes>>
  /\ UNCHANGED requestVars
  /\ UNCHANGED <<files, activated, now, completion>>

(***************************************************************************)
(* The completion provider's use of the cache.                             *)
(***************************************************************************)
StaleAfterMs == 300000

IdleCompletion == [pc |-> "idle", rebuild |-> 0]

(***************************************************************************)
(* The completion items: provideCompletionItems after it has the context   *)
(* and the word at the cursor.                                             *)
(***************************************************************************)
\* the parsed translation files the stores of the requests are built from
AuthJson ==
  JObj(<<[k |-> "auth",
          v |-> JObj(<<[k |-> "login",
                        v |-> JObj(<<[k |-> "title", v |-> JStr("Login")]>>)],
                       [k |-> "register",
                        v |-> JObj(<<[k |-> "title", v |-> JStr("Register")]>>)]>>)]>>)
FlatJson ==
  JObj(<<[k |-> "login.title", v |-> JStr("LT")],
         [k |-> "alogin", v |-> JStr("A")],
         [k |-> "login", v |-> JStr("L")]>>)
NestJson ==
  JObj(<<[k |-> "auth.login", v |-> JStr("X")],
         [k |-> "ab", v |-> JStr("3")],
         [k |-> "a", v |-> JObj(<<[k |-> "b", v |-> JStr("2")],
                                  [k |-> "a", v |-> JObj(<<[k |-> "b", v |-> JStr("1")]>>)]>>)]>>)

\* the cache a call of refreshTranslationCache installs after it parsed
\* these files in order
RECURSIVE BuiltFrom(_, _)
BuiltFrom(newCache, jsons) ==
  IF jsons = <<>> THEN SwappedCache(newCache)
  ELSE BuiltFrom(MergeExtracted(newCache, extractTranslationData(Head(jsons))),
                 Tail(jsons))
StoreOf(jsons) == BuiltFrom(TranslationCache(<<>>, EmptyMap, InitialNow), jsons)

\* the collation of the characters of a key: punctuation, digits, letters
CollationOrder == "_-.[]0123456789abcdefghijklmnopqrstuvwxyz"

\* aLabel.localeCompare(bLabel), for labels of these characters: the first
\* difference decides, and a proper prefix comes first
RECURSIVE localeCompare(_, _)
localeCompare(aLabel, bLabel) ==
  IF aLabel = "" /\ bLabel = "" THEN 0
  ELSE IF aLabel = "" THEN -1
  ELSE IF bLabel = "" THEN 1
  ELSE LET ra == IndexOf(CollationOrder, CharAt(aLabel, 1))
           rb == IndexOf(CollationOrder, CharAt(bLabel, 1))
       IN IF ra < rb THEN -1
          ELSE IF ra > rb THEN 1
          ELSE localeCompare(SubSeq(aLabel, 2, Len(aLabel)),
                             SubSeq(bLabel, 2, Len(bLabel)))

\* a comparator that ranks no label for its start
sortCompletionItems_NoPrefix(a, b, query) ==
  LET aExact == a.label = query
      bExact == b.label = query
  IN IF aExact /\ ~bExact THEN -1
     ELSE IF ~aExact /\ bExact THEN 1
     ELSE localeCompare(a.label, b.label)

sortCompletionItems(a, b, query) ==
  LET aLabel == a.label
      bLabel == b.label
      aExact == aLabel = query
      bExact == bLabel = query
      aStarts == StartsWith(aLabel, query)
      bStarts == StartsWith(bLabel, query)
  IN IF aExact /\ ~bExact THEN -1
     ELSE IF ~aExact /\ bExact THEN 1
     ELSE IF aStarts /\ ~bStarts THEN -1
     ELSE IF ~aStarts /\ bStarts THEN 1
     ELSE localeCompare(aLabel, bLabel)

\* completionItems.sort((a, b) => sortCompletionItems(a, b, currentWord)):
\* each item is inserted after the last one it does not precede
RECURSIVE InsertItem(_, _, _)
InsertItem(sorted, item, query) ==
  IF sorted = <<>> THEN <<item>>
  ELSE IF sortCompletionItems(item, sorted[Len(sorted)], query) < 0
       THEN Append(InsertItem(SubSeq(sorted, 1, Len(sorted) - 1), item, query),
                   sorted[Len(sorted)])
       ELSE Append(sorted, item)
RECURSIVE SortItems(_, _)
SortItems(items, query) ==
  IF items = <<>> THEN <<>>
  ELSE InsertItem(SortItems(SubSeq(items, 1, Len(items) - 1), query),
                  items[Len(items)], query)

\* a filter that asks for the context with no dot after it
IsChildOfContext_NoDot(key, context) ==
  IF context = "" THEN TRUE ELSE StartsWith(key, context) /\ key # context

\* .filter(key => ...): the key is a child of the context
IsChildOfContext(key, context) ==
  IF context = "" THEN TRUE
  ELSE StartsWith(key, context \o ".") /\ key # context

\* an item whose detail is never set
CompletionItem_NoDetail(cache, key, context) ==
  [label |-> key, detail |-> "", documentation |-> key]

\* .map(key => ...): the item of a key
CompletionItem(cache, key, context) ==
  LET displayKey == IF context # "" THEN ReplaceFirst(key, context \o ".", "")
                    ELSE key
  IN [label |-> displayKey, detail |-> cache.values[key], documentation |-> key]

\* the items provideCompletionItems returns for a context and a word
CompletionItems(cache, context, currentWord) ==
  LET kept == SelectSeq(cache.keys, LAMBDA key : IsChildOfContext(key, context))
      completionItems == [i \in 1..Len(kept) |-> CompletionItem(cache, kept[i], context)]
  IN SortItems(completionItems, currentWord)

\* the stores, contexts and words of the requests
StoreSources ==
  { <<>>, <<AuthJson>>, <<FlatJson>>, <<NestJson>>, <<AuthJson, FlatJson>>,
    <<AuthJson, NestJson>>, <<FlatJson, NestJson>>, <<AuthJson, FlatJson, NestJson>> }
Contexts == {"", "auth", "auth.login", "a", "login"}
Words == {"", "login", "title", "a.b", "b"}

\* a completion request that has its context and its word
ItemsRequest(context, currentWord) ==
  [kind |-> "items", context |-> context, currentWord |-> currentWord]

InitItems ==
  /\ sourceFiles = SourceList(<<>>)
  /\ files = InitialFiles
  /\ translationCache \in {StoreOf(jsons) : jsons \in StoreSources}
  /\ rebuilds = [r \in RebuildIds |-> IdleRebuild]
  /\ fileWatcher = "watching"
  /\ activated = "yes"
  /\ pendingEvents = 0
  /\ changes = 0
  /\ now = InitialNow
  /\ shown = {}
  /\ lastChange = "none"
  /\ lastCommand = NoCommand
  /\ completion = IdleCompletion
  /\ activeEditor = NoEditor
  /\ request \in {ItemsRequest(context, currentWord) :
                    context \in Contexts, currentWord \in Words}
  /\ response = NoResponse

\* lines 277-307 of provideCompletionItems
returnCompletionItems ==
  /\ request.kind = "items"
  /\ response = NoResponse
  /\ response' = [kind |-> "items",
                  items |-> CompletionItems(translationCache, request.context,
                                            request.currentWord)]
  /\ UNCHANGED <<cacheVars, activeEditor, request>>

NextItems == returnCompletionItems

SpecItems == InitItems /\ [][NextItems]_vars

\* the labels of a response, in order
Labels(items) == [i \in 1..Len(items) |-> items[i].label]

(***************************************************************************)
(* C7: with a context N the labels of the returned items are exactly the   *)
(* keys that start with N and a dot, each without that start, one item for *)
(* each such key; with no context they are all the keys, as they are.      *)
(* Keys auth.login.title and auth.register.title with context auth.login   *)
(* give the one label title.                                               *)
(***************************************************************************)
\* the key without its first n characters
Without(key, n) == SubSeq(key, n + 1, Len(key))

C7_NamespaceFilter ==
  response.kind = "items" =>
    LET keys == translationCache.keys
        N == request.context
        children == {keys[i] : i \in {j \in 1..Len(keys) :
                       Len(keys[j]) > Len(N) + 1
                       /\ SubSeq(keys[j], 1, Len(N) + 1) = N \o "."}}
        labels == Labels(response.items)
    IN /\ N # "" => /\ Range(labels) = {Without(k, Len(N) + 1) : k \in children}
                    /\ Len(labels) = Cardinality(children)
                    /\ N \notin {response.items[i].documentation :
                                   i \in 1..Len(labels)}
       /\ N = "" => /\ Range(labels) = Range(keys)
                    /\ Len(labels) = Len(keys)
       /\ (translationCache = StoreOf(<<AuthJson>>) /\ N = "auth.login")
            => labels = <<"title">>

\* a response to a request with the context auth.login, where the store
\* holds the context itself as a key, a child of it, and other keys
C7_Witness ==
  /\ response.kind = "items"
  /\ request.context = "auth.login"
  /\ {"auth.login", "auth.login.title", "auth.register.title", "a.a.b"}
       \subseteq Range(translationCache.keys)
  /\ Labels(response.items) = <<"title">>
  /\ response.items[1].detail = "Login"

(***************************************************************************)
(* C8: in the returned list a label equal to the word at the cursor comes  *)
(* before every other label, a label that starts with the word before      *)
(* every label that does not, and labels of the same class are in          *)
(* ascending lexicographic order; the word login over the keys login,      *)
(* login.title and alogin gives login, login.title, alogin.                *)
(***************************************************************************)
\* 0: the label is the word; 1: it starts with the word; 2: neither
MatchClass(label, word) ==
  IF label = word THEN 0
  ELSE IF Len(label) >= Len(word) /\ SubSeq(label, 1, Len(word)) = word THEN 1
  ELSE 2

\* a comes before b in the order of the dictionary: a is a proper prefix of
\* b, or at the first place they differ the character of a comes first
LexBefore(a, b) ==
  \/ Len(a) < Len(b) /\ SubSeq(b, 1, Len(a)) = a
  \/ \E i \in 1..Len(a) :
       /\ i <= Len(b)
       /\ SubSeq(a, 1, i - 1) = SubSeq(b, 1, i - 1)
       /\ IndexOf(CollationOrder, SubSeq(a, i, i))
            < IndexOf(CollationOrder, SubSeq(b, i, i))

C8_RankOrder ==
  response.kind = "items" =>
    LET labels == Labels(response.items)
        word == request.currentWord
    IN /\ \A i, j \in 1..Len(labels) :
            i < j =>
              /\ MatchClass(labels[i], word) <= MatchClass(labels[j], word)
              /\ MatchClass(labels[i], word) = MatchClass(labels[j], word)
                   => LexBefore(labels[i], labels[j])
       /\ (translationCache = StoreOf(<<FlatJson>>)
             /\ request.context = "" /\ word = "login")
            => labels = <<"login", "login.title", "alogin">>

\* the word login ranked over a store that holds the word itself, labels
\* that start with it and labels that sort before it
C8_Witness ==
  /\ response.kind = "items"
  /\ request.context = ""
  /\ request.currentWord = "login"
  /\ translationCache = StoreOf(<<AuthJson, FlatJson, NestJson>>)
  /\ SubSeq(Labels(response.items), 1, 3) = <<"login", "login.title", "a.a.b">>

(***************************************************************************)
(* Regular expressions, as String.prototype.match runs them: a pattern is  *)
(* a sequence of elements, matched from the leftmost start that succeeds,  *)
(* each repetition taking as many characters as lets the rest match, each  *)
(* alternation its first word that lets the rest match.                    *)
(***************************************************************************)
SpaceChars == " \n\t"
QuoteChars == "\"'"
WordChars == LowerCaseLetters \o UpperCaseLetters \o Digits \o "_"

\* one literal character
Lit(c) == [k |-> "lit", c |-> c]
\* the literal characters of a string
Lits(str) == [i \in 1..Len(str) |-> Lit(CharAt(str, i))]
\* a character class [chars] or [^chars], once, * or +
Cls(chars, neg, q) == [k |-> "cls", chars |-> chars, neg |-> neg, q |-> q]
\* ( and ) of capture group g
Open(g) == [k |-> "open", g |-> g]
Close(g) == [k |-> "close", g |-> g]
\* word1|word2|...
Alt(words) == [k |-> "alt", words |-> words]
\* $ (no m flag: the end of the text)
End == [k |-> "end"]
\* \b
WordBoundary == [k |-> "wordb"]

\* \s*
Ws == <<Cls(SpaceChars, FALSE, "star")>>
\* ["'`]
Quote == <<Cls(QuoteChars, FALSE, "one")>>
\* ([^"'`]*) as group g
Quoted(g) == <<Open(g), Cls(QuoteChars, TRUE, "star"), Close(g)>>

InClass(a, c) == (IndexOf(a.chars, c) >= 0) # a.neg

\* the character at pos is a \w character
IsWordAt(text, pos) ==
  pos >= 1 /\ pos <= Len(text) /\ IndexOf(WordChars, CharAt(text, pos)) >= 0

\* the characters of the class that follow one another from pos
RECURSIVE RunLength(_, _, _)
RunLength(a, text, pos) ==
  IF pos <= Len(text) /\ InClass(a, CharAt(text, pos))
  THEN 1 + RunLength(a, text, pos + 1) ELSE 0

NoMatch == [ok |-> FALSE, index |-> -1, end |-> 0, groups |-> <<"", "">>]
\* the state of a match: where each group opened, what each captured
StartOfMatch == [opens |-> <<0, 0>>, groups |-> <<"", "">>]

\* the match of the elements from the k-th on at pos
RECURSIVE MatchFrom(_, _, _, _, _), TryRun(_, _, _, _, _, _, _), TryAlt(_, _, _, _, _, _)
MatchFrom(re, k, text, pos, st) ==
  IF k > Len(re)
  THEN [ok |-> TRUE, index |-> -1, end |-> pos, groups |-> st.groups]
  ELSE LET a == re[k]
       IN CASE a.k = "lit" ->
                 IF pos <= Len(text) /\ CharAt(text, pos) = a.c
                 THEN MatchFrom(re, k + 1, text, pos + 1, st) ELSE NoMatch
            [] a.k = "cls" ->
                 IF a.q = "one"
                 THEN IF pos <= Len(text) /\ InClass(a, CharAt(text, pos))
                      THEN MatchFrom(re, k + 1, text, pos + 1, st) ELSE NoMatch
                 ELSE TryRun(re, k, text, pos, RunLength(a, text, pos),
                             IF a.q = "plus" THEN 1 ELSE 0, st)
            [] a.k = "open" ->
                 MatchFrom(re, k + 1, text, pos, [st EXCEPT !.opens[a.g] = pos])
            [] a.k = "close" ->
                 MatchFrom(re, k + 1, text, pos,
                           [st EXCEPT !.groups[a.g] = SubSeq(text, st.opens[a.g], pos - 1)])
            [] a.k = "alt" -> TryAlt(re, k, text, pos, 1, st)
            [] a.k = "end" ->
                 IF pos = Len(text) + 1
                 THEN MatchFrom(re, k + 1, text, pos, st) ELSE NoMatch
            [] a.k = "wordb" ->
                 IF IsWordAt(text, pos - 1) # IsWordAt(text, pos)
                 THEN MatchFrom(re, k + 1, text, pos, st) ELSE NoMatch
TryRun(re, k, text, pos, n, least, st) ==
  IF n < least THEN NoMatch
  ELSE LET m == MatchFrom(re, k + 1, text, pos + n, st)
       IN IF m.ok THEN m ELSE TryRun(re, k, text, pos, n - 1, least, st)
TryAlt(re, k, text, pos, w, st) ==
  IF w > Len(re[k].words) THEN NoMatch
  ELSE LET word == re[k].words[w]
           m == IF pos + Len(word) - 1 <= Len(text)
                   /\ SubSeq(text, pos, pos + Len(word) - 1) = word
                THEN MatchFrom(re, k + 1, text, pos + Len(word), st)
                ELSE NoMatch
       IN IF m.ok THEN m ELSE TryAlt(re, k, text, pos, w + 1, st)

\* text.match(re): the leftmost match, its index counted from 0 and its
\* groups; NoMatch for null
RECURSIVE MatchAtOrAfter(_, _, _)
MatchAtOrAfter(re, text, start) ==
  IF start > Len(text) + 1 THEN NoMatch
  ELSE LET m == MatchFrom(re, 1, text, start, StartOfMatch)
       IN IF m.ok THEN [m EXCEPT !.index = start - 1]
          ELSE MatchAtOrAfter(re, text, start + 1)
Match(text, re) == MatchAtOrAfter(re, text, 1)

(***************************************************************************)
(* getContext.                                                             *)
(***************************************************************************)
UseTranslationCall == Lits("useTranslation(") \o Ws \o Quote \o Quoted(1) \o Quote

\* /const\s*{\s*t\s*}\s*=\s*useTranslation\(\s*["'`]([^"'`]*)["'`]\)/
previousPattern ==
  Lits("const") \o Ws \o Lits("{") \o Ws \o Lits("t") \o Ws \o Lits("}") \o Ws
    \o Lits("=") \o Ws \o UseTranslationCall \o Lits(")")

patterns ==
  << previousPattern,
     \* /const\s*t\s*=\s*useTranslation\(\s*["'`]([^"'`]*)["'`]\)/
     Lits("const") \o Ws \o Lits("t") \o Ws \o Lits("=") \o Ws
       \o UseTranslationCall \o Lits(")"),
     \* /useTranslation\(\s*["'`]([^"'`]*)["'`]/
     UseTranslationCall,
     \* /useTranslation\(\s*["'`]([^"'`]*)["'`]\)\.t/
     UseTranslationCall \o Lits(").t"),
     \* /\.(t|translate)\(\s*["'`]([^"'`]*)["'`]/
     Lits(".") \o <<Open(1), Alt(<<"t", "translate">>), Close(1)>> \o Lits("(")
       \o Ws \o Quote \o Quoted(2) \o Quote >>

\* for (const pattern of patterns) { ... if (matches && matches[1]) return
\* matches[1] }; return ''
RECURSIVE FirstCapture(_, _)
FirstCapture(textUpToCursor, i) ==
  IF i > Len(patterns) THEN ""
  ELSE LET matches == Match(textUpToCursor, patterns[i])
       IN IF matches.ok /\ matches.groups[1] # "" THEN matches.groups[1]
          ELSE FirstCapture(textUpToCursor, i + 1)

\* document.getText(): the lines joined by the end of line
RECURSIVE GetText(_)
GetText(lines) ==
  IF lines = <<>> THEN ""
  ELSE IF Len(lines) = 1 THEN lines[1]
  ELSE lines[1] \o "\n" \o GetText(Tail(lines))

\* document.lineAt(lineNumber) throws: the document has no such line
IllegalLine(lines, lineNumber) == lineNumber < 0 \/ lineNumber >= Len(lines)

\* documentText.substring(0, documentText.indexOf(currentLine)
\*                           + linePrefix.length)
textUpToCursor(lines, linePrefix, lineNumber) ==
  LET currentLine == lines[lineNumber + 1]
      documentText == GetText(lines)
  IN Substring0(documentText,
                IndexOf(documentText, currentLine) + Len(linePrefix))

\* getContext(linePrefix, lineNumber): [fault, context]; the document is
\* that of the active editor
getContext(editor, linePrefix, lineNumber) ==
  IF ~editor.open THEN [fault |-> FALSE, context |-> ""]
  ELSE IF IllegalLine(editor.document, lineNumber)
  THEN [fault |-> TRUE, context |-> ""]
  ELSE [fault |-> FALSE,
        context |-> FirstCapture(
                      textUpToCursor(editor.document, linePrefix, lineNumber), 1)]

\* the lines of the documents
HookLine == "const { t } = useTranslation(\"auth\")"
EmptyHookLine == "const { t } = useTranslation(\"\")"
AssignLine == "const t = useTranslation('b')"
BareLine == "  useTranslation( \"c\","
ChainLine == "useTranslation(\"d\").t"
MemberLine == "i18n.t(\"home\")"
CallLine == "t("
PlainLine == "x = 1"
Lines ==
  {HookLine, EmptyHookLine, AssignLine, BareLine, ChainLine, MemberLine,
   CallLine, PlainLine}

\* the most lines of a document
MaxLines == 2
Documents == UNION {[1..n -> Lines] : n \in 1..MaxLines}

\* the detector is given a text
DetectRequest(text) == [kind |-> "detect", text |-> text]

InitDetect ==
  /\ sourceFiles = SourceList(<<>>)
  /\ files = InitialFiles
  /\ translationCache = StoreOf(<<>>)
  /\ rebuilds = [r \in RebuildIds |-> IdleRebuild]
  /\ fileWatcher = "watching"
  /\ activated = "yes"
  /\ pendingEvents = 0
  /\ changes = 0
  /\ now = InitialNow
  /\ shown = {}
  /\ lastChange = "none"
  /\ lastCommand = NoCommand
  /\ completion = IdleCompletion
  /\ activeEditor = NoEditor
  /\ request \in {DetectRequest(GetText(lines)) : lines \in Documents}
  /\ response = NoResponse

\* lines 211-219 of getContext, on the text
detectNamespace ==
  /\ request.kind = "detect"
  /\ response = NoResponse
  /\ response' = [kind |-> "context", context |-> FirstCapture(request.text, 1)]
  /\ UNCHANGED <<cacheVars, activeEditor, request>>

NextDetect == detectNamespace

SpecDetect == InitDetect /\ [][NextDetect]_vars

(***************************************************************************)
(* C9: the detector returns the namespace captured by the first of its     *)
(* patterns, in their order (destructured hook, direct assignment, bare    *)
(* useTranslation call, chained .t accessor, member call), that matches    *)
(* the text, whatever other patterns match, and the absent namespace when  *)
(* none matches; const { t } = useTranslation("auth") followed by a line   *)
(* t( gives auth.                                                          *)
(***************************************************************************)
\* the group of a pattern that holds the string between its quotes
QuotedGroup(i) == IF i = 5 THEN 2 ELSE 1

C9_FirstMatchingPattern ==
  response.kind = "context" =>
    LET text == request.text
        matching == {i \in 1..Len(patterns) : Match(text, patterns[i]).ok}
        first == CHOOSE i \in matching : \A j \in matching : i <= j
    IN /\ matching = {} => response.context = ""
       /\ matching # {} =>
            response.context = Match(text, patterns[first]).groups[QuotedGroup(first)]
       /\ text = HookLine \o "\n" \o CallLine => response.context = "auth"

(***************************************************************************)
(* provideHover.                                                           *)
(***************************************************************************)
\* [\w\-.]
KeyChars == WordChars \o "-."

\* /t\(\s*["'`]([\w\-.]+)["'`]\)/
HoverPattern ==
  Lits("t(") \o Ws \o Quote
    \o <<Open(1), Cls(KeyChars, FALSE, "plus"), Close(1)>> \o Quote \o Lits(")")

\* the characters of the class that precede one another up to pos
RECURSIVE RunLengthBefore(_, _, _)
RunLengthBefore(a, text, pos) ==
  IF pos >= 1 /\ InClass(a, CharAt(text, pos))
  THEN 1 + RunLengthBefore(a, text, pos - 1) ELSE 0

\* document.getWordRangeAtPosition(position, /[chars]+/): the run of the
\* class that holds or touches the position; ok is false for undefined
getWordRangeAtPosition(lineText, character, chars) ==
  LET a == Cls(chars, FALSE, "plus")
      before == RunLengthBefore(a, lineText, character)
      after == RunLength(a, lineText, character + 1)
  IN [ok |-> before + after > 0,
      start |-> character - before, end |-> character + after]

NoHover == [kind |-> "hover", fault |-> FALSE, found |-> FALSE, value |-> ""]

\* provideHover(document, position): the value shown, nothing, or the
\* exception of getContext
HoverResult(cache, editor, document, position) ==
  LET lineText == document[position.line + 1]
      range == getWordRangeAtPosition(lineText, position.character, KeyChars)
      keyMatch == Match(lineText, HoverPattern)
      key == keyMatch.groups[1]
      context == getContext(editor, lineText, position.line)
      fullKey == IF context.context # "" THEN context.context \o "." \o key
                 ELSE key
  IN IF ~range.ok THEN NoHover
     ELSE IF ~keyMatch.ok THEN NoHover
     ELSE IF context.fault THEN [NoHover EXCEPT !.fault = TRUE]
     ELSE IF MapHas(cache.values, fullKey) /\ cache.values[fullKey] # ""
     THEN [NoHover EXCEPT !.found = TRUE, !.value = cache.values[fullKey]]
     ELSE NoHover

\* the lines of the hovered documents
KeyLine == "  label = t(\"login.title\")"
HomeLine == "t(\"home\")"
HoverLines == {HookLine, KeyLine, HomeLine, PlainLine}
HoverDocuments == UNION {[1..n -> HoverLines] : n \in 1..MaxLines}
\* the columns of the cursor
Columns == {0, 1, 13}

HomeJson ==
  JObj(<<[k |-> "home", v |-> JStr("Home")],
         [k |-> "login.title", v |-> JStr("LT")]>>)

HoverRequest(document, line, character) ==
  [kind |-> "hover", document |-> document,
   position |-> [line |-> line, character |-> character]]

InitHover ==
  /\ sourceFiles = SourceList(<<>>)
  /\ files = InitialFiles
  /\ translationCache \in {StoreOf(<<>>), StoreOf(<<AuthJson, HomeJson>>)}
  /\ rebuilds = [r \in RebuildIds |-> IdleRebuild]
  /\ fileWatcher = "watching"
  /\ activated = "yes"
  /\ pendingEvents = 0
  /\ changes = 0
  /\ now = InitialNow
  /\ shown = {}
  /\ lastChange = "none"
  /\ lastCommand = NoCommand
  /\ completion = IdleCompletion
  /\ activeEditor \in {NoEditor} \cup {Editor(d) : d \in HoverDocuments}
  /\ request \in {HoverRequest(d, line, character) :
                    d \in HoverDocuments, line \in 0..(MaxLines - 1),
                    character \in Columns}
  /\ request.position.line < Len(request.document)
  /\ request.position.character
       <= Len(request.document[request.position.line + 1])
  /\ response = NoResponse

provideHover ==
  /\ request.kind = "hover"
  /\ response = NoResponse
  /\ response' = HoverResult(translationCache, activeEditor, request.document,
                             request.position)
  /\ UNCHANGED <<cacheVars, activeEditor, request>>

NextHover == provideHover

SpecHover == InitHover /\ [][NextHover]_vars

(***************************************************************************)
(* C10: a hover request on a line that holds t("KEY") looks up KEY, or     *)
(* N.KEY when N is the namespace detected in the request's document up to  *)
(* the cursor's line; it returns the store's value of exactly that key     *)
(* when the store holds it and nothing otherwise.  No hover request raises *)
(* a fault or changes the store.                                           *)
(***************************************************************************)
C10_HoverLooksUpKey ==
  [][(response.kind = "none" /\ response'.kind = "hover") =>
       LET document == request.document
           line == request.position.line
           keyMatch == Match(document[line + 1], HoverPattern)
           KEY == keyMatch.groups[1]
           N == FirstCapture(GetText(SubSeq(document, 1, line + 1)), 1)
           fullKey == IF N # "" THEN N \o "." \o KEY ELSE KEY
           values == translationCache.values
       IN /\ ~response'.fault
          /\ translationCache' = translationCache
          /\ keyMatch.ok =>
               IF fullKey \in DOMAIN values
               THEN response'.found /\ response'.value = values[fullKey]
               ELSE ~response'.found]_vars

(***************************************************************************)
(* getContext as a function of the document and the cursor.                *)
(***************************************************************************)
\* the most lines of a document given to getContext
MaxContextLines == 3
ContextLines == {HookLine, CallLine, PlainLine}
ContextDocuments == UNION {[1..n -> ContextLines] : n \in 1..MaxContextLines}

\* getContext is called for a cursor of the active editor's document:
\* position.line and position.character
ContextRequest(lineNumber, character) ==
  [kind |-> "getContext", line |-> lineNumber, character |-> character]

InitContext ==
  /\ sourceFiles = SourceList(<<>>)
  /\ files = InitialFiles
  /\ translationCache = StoreOf(<<>>)
  /\ rebuilds = [r \in RebuildIds |-> IdleRebuild]
  /\ fileWatcher = "watching"
  /\ activated = "yes"
  /\ pendingEvents = 0
  /\ changes = 0
  /\ now = InitialNow
  /\ shown = {}
  /\ lastChange = "none"
  /\ lastCommand = NoCommand
  /\ completion = IdleCompletion
  /\ \E lines \in ContextDocuments :
       /\ activeEditor = Editor(lines)
       /\ \E n \in DOMAIN lines :
            request \in {ContextRequest(n - 1, character) :
                           character \in {0, 2, Len(lines[n])}}
  /\ response = NoResponse

\* getContext(linePrefix, position.line), with the text it scans
scanContext ==
  /\ request.kind = "getContext"
  /\ response = NoResponse
  /\ LET lines == activeEditor.document
         linePrefix == Substring0(lines[request.line + 1], request.character)
     IN response' =
          [kind |-> "scanned",
           text |-> textUpToCursor(lines, linePrefix, request.line),
           context |-> getContext(activeEditor, linePrefix, request.line).context]
  /\ UNCHANGED <<cacheVars, activeEditor, request>>

NextContext == scanContext

SpecContext == InitContext /\ [][NextContext]_vars

\* the lines before the cursor's line, each with its line break, and the
\* cursor's line up to the cursor
RECURSIVE ThroughCursor(_, _, _)
ThroughCursor(lines, lineNumber, character) ==
  IF lineNumber = 0 THEN Substring0(lines[1], character)
  ELSE lines[1] \o "\n" \o ThroughCursor(Tail(lines), lineNumber - 1, character)

(***************************************************************************)
(* C20: for every document and cursor, the text getContext scans is the    *)
(* document from its start through the cursor's line (up to the cursor),   *)
(* so a useTranslation declaration on a line before the cursor's line is   *)
(* detected, also when the text of the cursor's line occurs earlier in the *)
(* document.                                                               *)
(***************************************************************************)
C20_ScansThroughCursorLine ==
  response.kind = "scanned" =>
    LET lines == activeEditor.document
    IN /\ response.text = ThroughCursor(lines, request.line, request.character)
       /\ (\E n \in 1..request.line : lines[n] = HookLine)
            => response.context = "auth"

(***************************************************************************)
(* provideCompletionItems, from the request to what it returns.            *)
(***************************************************************************)
\* [^"'`]*
Unquoted == <<Cls(QuoteChars, TRUE, "star")>>

TRANSLATION_PATTERNS ==
  << Lits("t(") \o Ws \o Quote \o <<End>>,
     Lits("$t(") \o Ws \o Quote \o <<End>>,
     Lits("useTranslation(") \o Ws \o Quote \o Unquoted \o Quote \o Lits(",")
       \o Ws \o Quote,
     Lits("i18n.t(") \o Ws \o Quote \o <<End>>,
     Lits("useTranslation(") \o Ws \o Quote \o Unquoted \o Quote \o Lits(".t(")
       \o Ws \o Quote,
     Lits("useTranslation(") \o <<Cls(")", TRUE, "star")>> \o Lits(").t(")
       \o Ws \o Quote,
     Lits(".") \o Ws \o Lits("t(") \o Ws \o Quote,
     <<WordBoundary>> \o Lits("t(") \o Ws \o Quote >>

\* a test that every line prefix passes
isInTranslationFunction_Always(linePrefix) == TRUE

\* TRANSLATION_PATTERNS.some(pattern => pattern.test(linePrefix))
isInTranslationFunction(linePrefix) ==
  \E i \in DOMAIN TRANSLATION_PATTERNS : Match(linePrefix, TRANSLATION_PATTERNS[i]).ok

\* the characters of a word of the default word pattern: those that are no
\* separator (a dot and a hyphen are separators; the pattern's alternative
\* for numbers such as -1.5 needs a digit after the dot, which no line here
\* has)
DefaultWordChars == WordChars

\* item.range = document.getWordRangeAtPosition(position, /[\w\-.]+/), the
\* same for every item of a response
ItemRange(lineText, character) ==
  getWordRangeAtPosition(lineText, character, KeyChars)

\* what provideCompletionItems returns with a cache that is not stale: a
\* rejection when getContext throws, undefined, or the sorted items with
\* the word they were sorted by and the range each of them replaces
CompletionResult(cache, editor, document, position) ==
  LET lineText == document[position.line + 1]
      linePrefix == Substring0(lineText, position.character)
      context == getContext(editor, linePrefix, position.line)
      wordRange == getWordRangeAtPosition(lineText, position.character,
                                          DefaultWordChars)
      currentWord == IF wordRange.ok
                     THEN SubSeq(lineText, wordRange.start + 1, wordRange.end)
                     ELSE ""
  IN IF context.fault THEN [kind |-> "rejected"]
     ELSE IF ~isInTranslationFunction(linePrefix) THEN [kind |-> "undefined"]
     ELSE [kind |-> "items",
           items |-> CompletionItems(cache, context.context, currentWord),
           currentWord |-> currentWord,
           range |-> ItemRange(lineText, position.character)]

\* the lines the cursor is on
QuoteCall == "t(\""
DollarCall == "$t('"
I18nCall == "i18n.t(\""
SecondArgument == "useTranslation(\"a\", \""
ChainCall == "useTranslation(\"d\").t(\""
SpacedMember == "obj. t( \""
CatCall == "cat(\""
CatKey == "cat(\"a"
KeyStarted == "t(\"lo"
DottedKey == "t(\"auth.lo"
CursorLines ==
  {HookLine, QuoteCall, DollarCall, I18nCall, SecondArgument, ChainCall,
   SpacedMember, CatCall, CatKey, KeyStarted, DottedKey, PlainLine}
\* the lines that come before
PrecedingLines == {HookLine, PlainLine}
CompletionDocuments ==
  {Append(before, last) :
     before \in UNION {[1..n -> PrecedingLines] : n \in 0..(MaxLines - 1)},
     last \in CursorLines}

\* provideCompletionItems(document, position)
CompletionRequest(document, line, character) ==
  [kind |-> "completion", document |-> document,
   position |-> [line |-> line, character |-> character]]

(***************************************************************************)
(* The completion provider: a request, its wait for the call it starts    *)
(* when the cache is stale, and its answer.                                *)
(***************************************************************************)
\* the request the editor makes: the cursor after t(" in a one-line document
RequestMade == CompletionRequest(<<QuoteCall>>, 0, Len(QuoteCall))

\* provideCompletionItems up to its await: a cache older than five minutes
\* is refreshed and the request awaits that call; else it answers at once.
provideCompletionItems ==
  /\ activated = "yes"
  /\ completion.pc = "idle"
  /\ IF now - translationCache.lastUpdate > StaleAfterMs
     THEN /\ CanRefresh
          /\ LET call == refreshTranslationCache(rebuilds, translationCache,
                                                 sourceFiles, now)
             IN /\ rebuilds' = call.rebuilds
                /\ translationCache' = call.cache
                /\ shown' = call.shown
                /\ completion' = IF call.ended
                                 THEN [pc |-> "resumable", rebuild |-> 0]
                                 ELSE [pc |-> "awaiting", rebuild |-> call.slot]
          /\ response' = NoResponse
     ELSE /\ shown' = {}
          /\ response' = CompletionResult(translationCache, activeEditor,
                                          RequestMade.document, RequestMade.position)
          /\ UNCHANGED <<rebuilds, translationCache, completion>>
  /\ request' = RequestMade
  /\ lastCommand' = NoCommand
  /\ UNCHANGED activeEditor
  /\ UNCHANGED <<sourceFiles, files, fileWatcher, activated, pendingEvents,
                 changes, now, lastChange>>

\* provideCompletionItems after its await: the answer, from the cache that
\* is active now
resumeCompletion ==
  /\ completion.pc = "resumable"
  /\ completion' = IdleCompletion
  /\ response' = CompletionResult(translationCache, activeEditor,
                                  request.document, request.position)
  /\ shown' = {}
  /\ lastCommand' = NoCommand
  /\ UNCHANGED <<activeEditor, request>>
  /\ UNCHANGED <<sourceFiles, files, translationCache, rebuilds, fileWatcher,
                 activated, pendingEvents, changes, now, lastChange>>

(***************************************************************************)
(* The extension: the cache, its rebuilds and what triggers them.          *)
(***************************************************************************)
Init ==
  /\ sourceFiles \in ConfigChoices
  /\ files = InitialFiles
  /\ translationCache = InitialCache
  /\ rebuilds = [r \in RebuildIds |-> IdleRebuild]
  /\ fileWatcher = "undefined"
  /\ activated = "no"
  /\ pendingEvents = 0
  /\ changes = 0
  /\ now = InitialNow
  /\ shown = {}
  /\ lastChange = "none"
  /\ lastCommand = NoCommand
  /\ completion = IdleCompletion
  /\ activeEditor = NoEditor
  /\ request = NoRequest
  /\ response = NoResponse

Next ==
  \/ activate
  \/ \E cfg \in ConfigChoices : onDidChangeConfiguration(cfg)
  \/ \E path \in MutableFiles, content \in Contents : FileChange(path, content)
  \/ onWatcherEvent
  \/ \E r \in RebuildIds : processJsonFile(r)
  \/ \E r \in RebuildIds : finishRefresh(r)
  \/ Tick
  \/ provideCompletionItems
  \/ resumeCompletion

Spec == Init /\ [][Next]_vars

(***************************************************************************)
(* The extension and its commands.                                         *)
(***************************************************************************)
NextCommands ==
  \/ activate
  \/ \E command \in ContributedCommands \cup RegisteredCommands,
        uris \in DialogChoices : executeCommand(command, uris)
  \/ \E path \in MutableFiles, content \in Contents : FileChange(path, content)
  \/ \E r \in RebuildIds : processJsonFile(r)
  \/ \E r \in RebuildIds : finishRefresh(r)

SpecCommands == Init /\ [][NextCommands]_vars

(***************************************************************************)
(* What a finished call must have built, from the files it processed.      *)
(***************************************************************************)
AllIdle == \A r \in RebuildIds : rebuilds[r].pc = "idle"

\* a call r ends with its swap in this step
Finishes(r) ==
  /\ rebuilds[r].pc = "run"
  /\ rebuilds[r].work = <<>>
  /\ rebuilds'[r].pc = "idle"

\* a call r runs one processJsonFile in this step
Processes(r) ==
  /\ rebuilds[r].pc = "run"
  /\ rebuilds[r].work # <<>>
  /\ rebuilds'[r] # rebuilds[r]

\* the processed files whose text parsed, in the order they were processed
Parsed(calls) ==
  SelectSeq(calls, LAMBDA c : c.content # NoFile /\ JsonParse(c.content) # SyntaxError)

\* every entry of the parsed files, in order
RECURSIVE EntriesOf(_)
EntriesOf(parsed) ==
  IF parsed = <<>> THEN <<>>
  ELSE traverse(JsonParse(Head(parsed).content), "") \o EntriesOf(Tail(parsed))

\* the keys of the entries
KeysOf(entries) == {entries[i].key : i \in 1..Len(entries)}

\* the value of the last entry with the key
LastValue(entries, key) ==
  LET at == {i \in 1..Len(entries) : entries[i].key = key}
  IN entries[CHOOSE i \in at : \A j \in at : j <= i].value

\* the cache holds exactly the entries, the last value of each key
HoldsExactly(cache, entries) ==
  /\ Range(cache.keys) = KeysOf(entries)
  /\ DOMAIN cache.values = KeysOf(entries)
  /\ \A k \in KeysOf(entries) : cache.values[k] = LastValue(entries, k)

\* the setting's sources that are files with a .json name
JsonSources(list) == {list[i] : i \in {j \in 1..Len(list) :
                        list[j] # NonStringEntry /\ list[j] \notin DOMAIN DirEntries
                        /\ IsJsonName(list[j])}}

\* processJsonFile of this path fails now: no file, or a text that is no JSON
FailsNow(path) ==
  /\ path # NonStringEntry
  /\ path \notin DOMAIN DirEntries
  /\ \/ FileAt(files, path) = NoFile
     \/ IsJsonName(path) /\ JsonParse(FileAt(files, path)) = SyntaxError

(***************************************************************************)
(* C1: the active cache changes only in the step that ends a call, and     *)
(* then to the whole of what that call built from all the files it         *)
(* processed (or, with no source configured, to the empty cache of the     *)
(* call that started and ended in the step); while calls are in progress   *)
(* it holds nothing of theirs.                                             *)
(***************************************************************************)
C1_AtomicSwap ==
  [][translationCache' # translationCache =>
       \/ \E r \in RebuildIds :
            /\ Finishes(r)
            /\ HoldsExactly(translationCache', EntriesOf(Parsed(rebuilds[r].calls)))
            /\ translationCache'.lastUpdate = rebuilds[r].newCache.lastUpdate
            /\ JsonSources(rebuilds[r].sourceFiles)
                 \subseteq {rebuilds[r].calls[i].path : i \in 1..Len(rebuilds[r].calls)}
       \/ /\ sourceFiles' = SourceList(<<>>)
          /\ translationCache' = TranslationCache(<<>>, EmptyMap, now)]_vars

\* a call has built part of its cache, another file to go, while the active
\* cache is the result of an earlier call and a completion request waits
C1_Witness ==
  \E r \in RebuildIds :
    /\ rebuilds[r].pc = "run"
    /\ rebuilds[r].work # <<>>
    /\ rebuilds[r].newCache.keys # <<>>
    /\ translationCache.keys # <<>>
    /\ translationCache.values # rebuilds[r].newCache.values
    /\ completion.pc = "awaiting"

(***************************************************************************)
(* C2: in the active cache the keys of the key sequence are the keys of    *)
(* the value map.                                                          *)
(***************************************************************************)
C2_KeysMatchValues ==
  Range(translationCache.keys) = DOMAIN translationCache.values

\* a cache built from two files that share a key
C2_Witness ==
  /\ AllIdle
  /\ sourceFiles = SourceList(<<"/l/en.json", "/l/fr.JSON">>)
  /\ Len(translationCache.keys) = 2
  /\ "a.c[0]" \in DOMAIN translationCache.values

(***************************************************************************)
(* C3: a processJsonFile whose file is missing or is no JSON adds nothing  *)
(* to the new cache, shows the warning naming the file, and leaves the     *)
(* call running on its remaining paths; the call that ends installs        *)
(* exactly the entries of the files that parsed, having processed every    *)
(* .json file of its sources.                                              *)
(***************************************************************************)
C3_BadFileSkipped ==
  [][\A r \in RebuildIds :
       /\ (Processes(r) /\ FailsNow(Head(rebuilds[r].work))) =>
            /\ rebuilds'[r].newCache = rebuilds[r].newCache
            /\ WarningMessage(Head(rebuilds[r].work)) \in shown'
            /\ rebuilds'[r].pc = "run"
            /\ rebuilds'[r].work = Tail(rebuilds[r].work)
       /\ Finishes(r) =>
            /\ HoldsExactly(translationCache', EntriesOf(Parsed(rebuilds[r].calls)))
            /\ JsonSources(rebuilds[r].sourceFiles)
                 \subseteq {rebuilds[r].calls[i].path : i \in 1..Len(rebuilds[r].calls)}]_vars

\* the cache installed by a call that read one valid and one malformed file
C3_Witness ==
  /\ AllIdle
  /\ sourceFiles = SourceList(<<"/l/en.json", "/l/fr.JSON">>)
  /\ files["/l/en.json"] = TextOne
  /\ files["/l/fr.JSON"] = TextBad
  /\ lastChange = "delivered"
  /\ translationCache.keys = <<"a.b">>
  /\ translationCache.values["a.b"] = "x"

(***************************************************************************)
(* C4: a call that fails as a whole (the setting cannot be iterated, or an *)
(* entry of it is no path) shows the error notification and leaves the     *)
(* active cache, its keys, values and lastUpdate, as it was.               *)
(***************************************************************************)
\* a call is made in this step
RefreshCalled ==
  \/ activate
  \/ onWatcherEvent
  \/ \E cfg \in ConfigChoices : onDidChangeConfiguration(cfg)
  \/ provideCompletionItems /\ now - translationCache.lastUpdate > StaleAfterMs

C4_FailedRebuildKeepsCache ==
  [][/\ (RefreshCalled /\ ~sourceFiles'.iterable) =>
          (ErrorMessage \in shown' /\ translationCache' = translationCache)
     /\ \A r \in RebuildIds :
          (Processes(r) /\ Head(rebuilds[r].work) = NonStringEntry) =>
            /\ ErrorMessage \in shown'
            /\ translationCache' = translationCache
            /\ rebuilds'[r].pc = "idle"
     /\ ErrorMessage \in shown' => translationCache' = translationCache]_vars

\* the error was shown by a call that had built part of a cache, and the
\* active cache still holds the entries of an earlier call
C4_Witness ==
  /\ ErrorMessage \in shown
  /\ sourceFiles = SourceList(<<"/l/en.json", NonStringEntry>>)
  /\ AllIdle
  /\ translationCache.keys = <<"a.b", "a.c[0]">>

(***************************************************************************)
(* C5: once the watcher has delivered the event of the latest file change  *)
(* and every call has ended, the active cache holds the entries of the     *)
(* configured source files as they now are.                                *)
(***************************************************************************)
\* the texts of the sources now, in source order
CurrentCalls(list) ==
  [i \in 1..Len(list) |-> [path |-> list[i], content |-> FileAt(files, list[i])]]

C5_CacheFollowsFiles ==
  (/\ lastChange = "delivered"
   /\ AllIdle
   /\ sourceFiles.iterable
   /\ Range(sourceFiles.list) \subseteq MutableFiles)
  => HoldsExactly(translationCache, EntriesOf(Parsed(CurrentCalls(sourceFiles.list))))

(***************************************************************************)
(* C6: executing l10n-manager.refreshCache starts a rebuild at once.       *)
(***************************************************************************)
C6_RefreshCommandRebuilds ==
  lastCommand.command = RefreshCacheCommand =>
    /\ lastCommand.result = "done"
    /\ \/ \E r \in RebuildIds :
            rebuilds[r].pc = "run" /\ rebuilds[r].newCache.lastUpdate = now
       \/ translationCache.lastUpdate = now
       \/ ErrorMessage \in shown

(***************************************************************************)
(* extractTranslationData as a function of a parsed JSON value.            *)
(***************************************************************************)
\* the deepest nesting of the values given to extractTranslationData
MaxDepth == 2

\* the leaves of the values: strings (one empty), a number, a boolean, null
Leaves == {JStr("x"), JStr("y"), JStr(""), JNum("7"), JBool("false"), JNull}
\* the property names of the objects (one empty), alone and in pairs
PropertyNames == {"a", ""}
NamePairs == {<<"a", "b">>, <<"", "a">>}

\* the values nested at most d deep: a leaf, an empty object or array, an
\* object or array of one value, or of one value followed by a leaf
RECURSIVE JsonValues(_)
JsonValues(d) ==
  IF d = 0 THEN Leaves
  ELSE LET inner == JsonValues(d - 1)
       IN inner
          \cup {JObj(<<>>), JArr(<<>>)}
          \cup {JObj(<<[k |-> n, v |-> c]>>) : n \in PropertyNames, c \in inner}
          \cup {JArr(<<c>>) : c \in inner}
          \cup {JObj(<<[k |-> p[1], v |-> c], [k |-> p[2], v |-> l]>>) :
                  p \in NamePairs, c \in inner, l \in Leaves}
          \cup {JArr(<<c, l>>) : c \in inner, l \in Leaves}

\* extractTranslationData is called on a parsed value
FlattenRequest(json) == [kind |-> "flatten", json |-> json]

InitFlatten ==
  /\ sourceFiles = SourceList(<<>>)
  /\ files = InitialFiles
  /\ translationCache = StoreOf(<<>>)
  /\ rebuilds = [r \in RebuildIds |-> IdleRebuild]
  /\ fileWatcher = "watching"
  /\ activated = "yes"
  /\ pendingEvents = 0
  /\ changes = 0
  /\ now = InitialNow
  /\ shown = {}
  /\ lastChange = "none"
  /\ lastCommand = NoCommand
  /\ completion = IdleCompletion
  /\ activeEditor = NoEditor
  /\ request \in {FlattenRequest(json) : json \in JsonValues(MaxDepth)}
  /\ response = NoResponse

\* the call returns { keys, values }
flatten ==
  /\ request.kind = "flatten"
  /\ response = NoResponse
  /\ LET data == extractTranslationData(request.json)
     IN response' = [kind |-> "flattened", keys |-> data.keys,
                     values |-> data.values]
  /\ UNCHANGED <<cacheVars, activeEditor, request>>

NextFlatten == flatten

SpecFlatten == InitFlatten /\ [][NextFlatten]_vars

\* the leaves of a value with the steps (property names, array indexes) that
\* lead to each, in document order
RECURSIVE LeafPaths(_, _), LeafPathsOf(_, _, _)
LeafPaths(json, path) ==
  IF json.t \in {"object", "array"} THEN LeafPathsOf(json, 1, path)
  ELSE <<[path |-> path, leaf |-> json]>>
LeafPathsOf(json, i, path) ==
  IF i > Len(json.e) THEN <<>>
  ELSE LET step == IF json.t = "array"
                   THEN [kind |-> "index", s |-> IndexToString(i - 1)]
                   ELSE [kind |-> "name", s |-> json.e[i].k]
           child == IF json.t = "array" THEN json.e[i] ELSE json.e[i].v
       IN LeafPaths(child, Append(path, step)) \o LeafPathsOf(json, i + 1, path)

IsStringLeaf(l) == l.leaf.t = "string"
StringLeaves(json) == SelectSeq(LeafPaths(json, <<>>), IsStringLeaf)
OnlyStringLeaves(json) ==
  \A i \in DOMAIN LeafPaths(json, <<>>) : IsStringLeaf(LeafPaths(json, <<>>)[i])

(***************************************************************************)
(* C11: for a nested value whose leaves are all strings, the number of     *)
(* entries extractTranslationData returns equals the number of string      *)
(* leaves of the value: every string leaf gives an entry.                  *)
(***************************************************************************)
C11_EntryPerStringLeaf ==
  (/\ response.kind = "flattened"
   /\ request.json.t \in {"object", "array"}
   /\ OnlyStringLeaves(request.json)) =>
    Len(response.keys) = Len(StringLeaves(request.json))

\* whether a step is joined to the prefix built so far: below the root, or
\* to a prefix that is not empty
BelowRoot == "below the root"
NonEmptyPrefix == "non-empty prefix"
Joins(rule, before, prefix) ==
  IF rule = BelowRoot THEN before # <<>> ELSE prefix # ""

\* the key of a leaf reached by a path: each step joined to the prefix
\* (.name, [index]) when the rule says so, and the whole key otherwise
RECURSIVE KeyOfPath(_, _)
KeyOfPath(path, rule) ==
  IF path = <<>> THEN ""
  ELSE LET before == SubSeq(path, 1, Len(path) - 1)
           prefix == KeyOfPath(before, rule)
           step == path[Len(path)]
       IN IF ~Joins(rule, before, prefix) THEN step.s
          ELSE IF step.kind = "name" THEN prefix \o "." \o step.s
          ELSE prefix \o "[" \o step.s \o "]"

\* every entry returned is a string leaf of the value under the key of its
\* path, and the leaves that are no strings give no entry
EntriesAreStringLeaves(rule) ==
  response.kind = "flattened" =>
    LET leaves == StringLeaves(request.json)
        IsLeaf(key, value) ==
          \E i \in DOMAIN leaves :
            /\ KeyOfPath(leaves[i].path, rule) = key
            /\ leaves[i].leaf.s = value
    IN /\ \A i \in DOMAIN response.keys :
            /\ MapHas(response.values, response.keys[i])
            /\ \E value \in {leaves[j].leaf.s : j \in DOMAIN leaves} :
                 IsLeaf(response.keys[i], value)
       /\ \A key \in DOMAIN response.values :
            IsLeaf(key, response.values[key])
       /\ Len(response.keys) <= Len(leaves)

(***************************************************************************)
(* C12: every entry extractTranslationData returns corresponds to a string *)
(* leaf of the value and is keyed by that leaf's path: the prefix, a dot   *)
(* and the property name for an object property, the prefix and the index  *)
(* in square brackets for an array element, and just the name or the index *)
(* when the prefix is empty (at the root, and below properties whose names *)
(* are empty); numbers, booleans, null, empty objects and empty arrays     *)
(* never produce an entry.                                                 *)
(***************************************************************************)
C12_EntriesAreStringLeaves == EntriesAreStringLeaves(NonEmptyPrefix)

\* the claim as stated: just the name or the index at the root only
C12_JoinedBelowRoot == EntriesAreStringLeaves(BelowRoot)

\* {"a": ["x"], "b": 7} gives the one entry a[0]
C12_Witness ==
  /\ response.kind = "flattened"
  /\ request.json = JObj(<<[k |-> "a", v |-> JArr(<<JStr("x")>>)],
                           [k |-> "b", v |-> JNum("7")]>>)
  /\ response.keys = <<"a[0]">>

\* the flat one-level object of a mapping: each key with its own value
AsObject(keys, values) ==
  LET names == Unique(keys)
  IN JObj([i \in DOMAIN names |-> [k |-> names[i], v |-> JStr(values[names[i]])]])

(***************************************************************************)
(* C13: flattening is idempotent on its own output: the flat one-level     *)
(* object rebuilt from the result (each key with its value) flattens to    *)
(* the same mapping.                                                       *)
(***************************************************************************)
C13_FlattenIdempotent ==
  response.kind = "flattened" =>
    extractTranslationData(AsObject(response.keys, response.values)).values
      = response.values

\* {"a": ["x", "y"], "b": "y"} gives a[0], a[1] and b
C13_Witness ==
  /\ response.kind = "flattened"
  /\ DOMAIN response.values = {"a[0]", "a[1]", "b"}

\* what a parsed file yields on its own
YieldOf(call) == extractTranslationData(JsonParse(call.content))
\* the last of the parsed files that yields the key
LastFileWith(parsed, key) ==
  LET at == {i \in 1..Len(parsed) : MapHas(YieldOf(parsed[i]).values, key)}
  IN parsed[CHOOSE i \in at : \A j \in at : j <= i]
NoDuplicates(keys) == \A i, j \in DOMAIN keys : keys[i] = keys[j] => i = j

(***************************************************************************)
(* C14: the cache a call installs lists each key once in its key sequence, *)
(* and for a key that several of the processed files yield it holds the    *)
(* value of the file processed last.                                       *)
(***************************************************************************)
C14_LastFileWins ==
  [][/\ NoDuplicates(translationCache'.keys)
     /\ \A r \in RebuildIds :
          Finishes(r) =>
            LET parsed == Parsed(rebuilds[r].calls)
            IN \A i \in DOMAIN parsed :
                 \A key \in DOMAIN YieldOf(parsed[i]).values :
                   /\ key \in Range(translationCache'.keys)
                   /\ translationCache'.values[key]
                        = YieldOf(LastFileWith(parsed, key)).values[key]]_vars

\* en.json and fr.JSON both yield a.b; the cache holds fr.JSON's value
C14_Witness ==
  /\ AllIdle
  /\ sourceFiles = SourceList(<<"/l/en.json", "/l/fr.JSON">>)
  /\ files["/l/en.json"] = TextOne
  /\ files["/l/fr.JSON"] = TextTwo
  /\ translationCache.keys = <<"a.b", "a.c[0]">>
  /\ translationCache.values["a.b"] = "y"

\* the files below a directory, at any depth
RECURSIVE DescendantFiles(_)
DescendantFiles(dirPath) ==
  UNION {LET child == PathJoin(dirPath, DirEntries[dirPath][i])
         IN IF child \in DOMAIN DirEntries THEN DescendantFiles(child)
            ELSE {child} : i \in DOMAIN DirEntries[dirPath]}

(***************************************************************************)
(* C15: a call that ends has processed, for each source that is a          *)
(* directory, every file below it at any depth whose extension is .json in *)
(* any letter case, also those in subdirectories whose names do not end in *)
(* .json, and a source that is a file only when its extension is .json     *)
(* (the files being those the file system had from the start).             *)
(***************************************************************************)
C15_DirectoryDescendants ==
  [][\A r \in RebuildIds :
       (Finishes(r) /\ files = InitialFiles) =>
         LET list == rebuilds[r].sourceFiles
             processed == {rebuilds[r].calls[i].path : i \in DOMAIN rebuilds[r].calls}
         IN \A i \in DOMAIN list :
              IF list[i] \in DOMAIN DirEntries
              THEN {f \in DescendantFiles(list[i]) : IsJsonName(f)} \subseteq processed
              ELSE (list[i] \in processed) <=> IsJsonName(list[i])]_vars

(***************************************************************************)
(* C16: a completion request that finds the cache stale starts a call of   *)
(* refreshTranslationCache and goes on without waiting for that call: the  *)
(* request is never held while the call it started is still running.       *)
(***************************************************************************)
C16_StaleRequestNeverBlocks ==
  ~(/\ completion.pc = "awaiting"
    /\ rebuilds[completion.rebuild].pc = "run")

(***************************************************************************)
(* C18: of two calls in progress at once neither is cancelled, held back   *)
(* or merged with the other: a running call changes only by its own steps, *)
(* the call that ends installs its own cache whatever the other has done,  *)
(* and leaves the other running, so the cache is that of the call that     *)
(* ended last, also when that call started first.                          *)
(***************************************************************************)
C18_LastFinisherWins ==
  [][\A r \in RebuildIds :
       /\ (rebuilds[r].pc = "run" /\ rebuilds'[r] # rebuilds[r]) =>
            (processJsonFile(r) \/ finishRefresh(r))
       /\ Finishes(r) =>
            /\ translationCache' = SwappedCache(rebuilds[r].newCache)
            /\ \A q \in RebuildIds \ {r} : rebuilds'[q] = rebuilds[q]
       /\ (rebuilds[r].pc = "run" /\ rebuilds[r].work = <<>>) =>
            ENABLED finishRefresh(r)]_vars

\* the cache is that of a call that started later and has ended; a call
\* that started before it has processed its files and is about to end
C18_Witness ==
  \E r \in RebuildIds :
    /\ rebuilds[r].pc = "run"
    /\ rebuilds[r].work = <<>>
    /\ rebuilds[r].newCache.keys # <<>>
    /\ translationCache.keys # <<>>
    /\ translationCache.lastUpdate > rebuilds[r].newCache.lastUpdate

(***************************************************************************)
(* C19: when none of the four useTranslation patterns matches the text and *)
(* the member call pattern, .t("K") or .translate("K"), does, the detector *)
(* returns K, the string of the call.                                      *)
(***************************************************************************)
C19_MemberCallNamespace ==
  (/\ response.kind = "context"
   /\ \A i \in 1..4 : ~Match(request.text, patterns[i]).ok
   /\ Match(request.text, patterns[5]).ok)
  => response.context = Match(request.text, patterns[5]).groups[2]

InitComplete ==
  /\ sourceFiles = SourceList(<<>>)
  /\ files = InitialFiles
  /\ translationCache \in {StoreOf(<<>>), StoreOf(<<AuthJson, FlatJson>>)}
  /\ rebuilds = [r \in RebuildIds |-> IdleRebuild]
  /\ fileWatcher = "watching"
  /\ activated = "yes"
  /\ pendingEvents = 0
  /\ changes = 0
  /\ now = InitialNow
  /\ shown = {}
  /\ lastChange = "none"
  /\ lastCommand = NoCommand
  /\ completion = IdleCompletion
  /\ \E d \in CompletionDocuments :
       /\ activeEditor = Editor(d)
       /\ \E n \in DOMAIN d :
            request \in {CompletionRequest(d, n - 1, character) :
                           character \in {0, Len(d[n]) - 1, Len(d[n])}}
  /\ response = NoResponse

\* the request is answered from a cache that is not stale
answerCompletion ==
  /\ request.kind = "completion"
  /\ response = NoResponse
  /\ now - translationCache.lastUpdate <= StaleAfterMs
  /\ response' = CompletionResult(translationCache, activeEditor,
                                  request.document, request.position)
  /\ UNCHANGED <<cacheVars, activeEditor, request>>

NextComplete == answerCompletion

SpecComplete == InitComplete /\ [][NextComplete]_vars

\* the line text before the cursor of the request
LinePrefix ==
  Substring0(request.document[request.position.line + 1],
             request.position.character)
\* a trigger pattern matches the text
Triggered(text) ==
  \E i \in DOMAIN TRANSLATION_PATTERNS : Match(text, TRANSLATION_PATTERNS[i]).ok

(***************************************************************************)
(* C17: provideCompletionItems returns items only when the line text       *)
(* before the cursor matches one of TRANSLATION_PATTERNS, and returns none *)
(* when no pattern matches, whatever the cache holds and whatever          *)
(* getContext detects: before the cursor, t(" gives items and cat("a gives *)
(* none.                                                                   *)
(***************************************************************************)
C17_OnlyInTranslationCall ==
  response.kind \in {"items", "undefined", "rejected"} =>
    /\ response.kind = "items" => Triggered(LinePrefix)
    /\ ~Triggered(LinePrefix) => response.kind \in {"undefined", "rejected"}
    /\ LinePrefix = QuoteCall => response.kind = "items"
    /\ LinePrefix = CatKey => response.kind = "undefined"

\* after const { t } = useTranslation("auth"), with a cache that holds keys
\* of auth, the cursor after cat("a gets no items
C17_Witness ==
  /\ response.kind = "undefined"
  /\ request.document = <<HookLine, CatKey>>
  /\ LinePrefix = CatKey
  /\ translationCache.keys # <<>>
  /\ getContext(activeEditor, LinePrefix, request.position.line).context = "auth"

(***************************************************************************)
(* The namespace of a request: getContext as the providers call it, with   *)
(* the editor that happens to be active.                                   *)
(***************************************************************************)
NamespaceLines == {HookLine, AssignLine, QuoteCall}
NamespaceDocuments == UNION {[1..n -> NamespaceLines] : n \in 1..MaxLines}

\* a completion or hover request: its provider, document and position
NamespaceRequest(provider, document, line, character) ==
  [kind |-> "namespace", provider |-> provider, document |-> document,
   position |-> [line |-> line, character |-> character]]

\* the linePrefix the provider gives to getContext: the line up to the
\* cursor for a completion, the whole line for a hover
PrefixGiven(req) ==
  LET lineText == req.document[req.position.line + 1]
  IN IF req.provider = "completion"
     THEN Substring0(lineText, req.position.character)
     ELSE lineText

InitNamespace ==
  /\ sourceFiles = SourceList(<<>>)
  /\ files = InitialFiles
  /\ translationCache = StoreOf(<<>>)
  /\ rebuilds = [r \in RebuildIds |-> IdleRebuild]
  /\ fileWatcher = "watching"
  /\ activated = "yes"
  /\ pendingEvents = 0
  /\ changes = 0
  /\ now = InitialNow
  /\ shown = {}
  /\ lastChange = "none"
  /\ lastCommand = NoCommand
  /\ completion = IdleCompletion
  /\ activeEditor \in {NoEditor} \cup {Editor(d) : d \in NamespaceDocuments}
  /\ \E d \in NamespaceDocuments, provider \in {"completion", "hover"} :
       \E n \in DOMAIN d :
         request \in {NamespaceRequest(provider, d, n - 1, character) :
                        character \in {0, Len(d[n])}}
  /\ response = NoResponse

\* const context = getContext(linePrefix, position.line)
detectForRequest ==
  /\ request.kind = "namespace"
  /\ response = NoResponse
  /\ LET found == getContext(activeEditor, PrefixGiven(request),
                             request.position.line)
     IN response' = [kind |-> "namespace", fault |-> found.fault,
                     context |-> found.context]
  /\ UNCHANGED <<cacheVars, activeEditor, request>>

NextNamespace == detectForRequest

SpecNamespace == InitNamespace /\ [][NextNamespace]_vars

(***************************************************************************)
(* C21: the namespace detected for a completion or hover request depends   *)
(* on the request's document and position only: whichever editor is        *)
(* active, it is the namespace the same request gets when its own document *)
(* is the one in the active editor.                                        *)
(***************************************************************************)
C21_NamespaceOfOwnDocument ==
  response.kind = "namespace" =>
    /\ ~response.fault
    /\ response.context
         = getContext(Editor(request.document), PrefixGiven(request),
                      request.position.line).context

\* the text of a range of the cursor's line
TextOfRange(range) ==
  IF range.ok
  THEN SubSeq(request.document[request.position.line + 1],
              range.start + 1, range.end)
  ELSE ""

(***************************************************************************)
(* C22: in every completion response the word the items are ranked by is   *)
(* the text of the range reported as each item's replacement range, the    *)
(* run of letters, digits, _, . and - at the cursor: after t("auth.lo both *)
(* are auth.lo.                                                            *)
(***************************************************************************)
C22_QueryIsReplacedRange ==
  response.kind = "items" =>
    /\ response.currentWord = TextOfRange(response.range)
    /\ LinePrefix = DottedKey =>
         (response.currentWord = "auth.lo"
            /\ TextOfRange(response.range) = "auth.lo")

(***************************************************************************)
(* C23: the lastUpdate of the active cache never decreases: every step     *)
(* that replaces the cache installs one whose lastUpdate is at least that  *)
(* of the cache it replaces, whether calls overlap or not.                 *)
(***************************************************************************)
C23_LastUpdateNeverDecreases ==
  [][translationCache'.lastUpdate >= translationCache.lastUpdate]_vars

(***************************************************************************)
(* C24: every completion response is computed from one cache, the one      *)
(* active when the request is answered: the full key of every item is a    *)
(* key of it and the item's detail is its value for that key, also when    *)
(* other calls have ended while the request awaited the call it started;   *)
(* no item is without a detail.                                            *)
(***************************************************************************)
C24_OneSnapshot ==
  [][(response' # response /\ response'.kind = "items") =>
       /\ translationCache' = translationCache
       /\ \A i \in DOMAIN response'.items :
            LET item == response'.items[i]
                key == item.documentation
            IN /\ key \in Range(translationCache.keys)
               /\ MapHas(translationCache.values, key)
               /\ item.detail = translationCache.values[key]
               /\ item.detail # ""
       /\ Len(response'.items) = Len(translationCache.keys)]_vars

\* the request awaits the call it started on finding the cache stale, and
\* the cache has since been replaced by another call that ended
C24_Witness ==
  /\ completion.pc = "awaiting"
  /\ rebuilds[completion.rebuild].pc = "run"
  /\ translationCache.keys # <<>>
  /\ rebuilds[completion.rebuild].newCache.lastUpdate
       - translationCache.lastUpdate <= StaleAfterMs

====
